---- MODULE Spec2Model ----
(***************************************************************************)
(* State-machine model of leptos-use `sync_signal_with_options`            *)
(* (src/src/sync_signal.rs).  Two signals `left` and `right` are wired by  *)
(* up to two `watch` observers that cross-write (optionally transformed)   *)
(* values behind an inequality gate.  The returned closure stops the       *)
(* observers.                                                              *)
(*                                                                         *)
(* The reactive runtime is single-threaded: a signal write notifies the    *)
(* watchers subscribed to it, and the notified callbacks run before        *)
(* control returns to the caller.  `pending` holds the notified watchers   *)
(* whose callback has not run yet; external writes and the disposer are    *)
(* only taken when it is empty.                                            *)
(***************************************************************************)
EXTENDS Integers, Sequences, FiniteSets, TLC

VARIABLES
    left,             \* value of the left signal
    right,            \* value of the right signal
    immediate,        \* options.immediate
    direction,        \* options.direction
    transform_ltr,    \* options.transform_ltr (name of the closure)
    transform_rtl,    \* options.transform_rtl (name of the closure)
    stop_watch_left,  \* "None" | "active" | "stopped"
    stop_watch_right, \* "None" | "active" | "stopped"
    pc,               \* position in sync_signal_with_options
    pending,          \* notified watchers whose callback has not run yet
    origLeft,         \* history: left when sync_signal_with_options was called
    origRight,        \* history: right when sync_signal_with_options was called
    lastSetSide,      \* history: signal of the latest external write
    lastSetVal,       \* history: value of the latest external write
    nSets,            \* history: external writes so far (saturating)
    writesToLeft,     \* history: observer writes to left since the latest
                      \*          external write (saturating)
    writesToRight,    \* history: observer writes to right, likewise
    disposeCalls,     \* history: calls of the returned closure (saturating)
    \* Four signals wired by three sync_signal calls (doc lines 55-62).
    sig,              \* value of each of the signals a, b, c, d
    chainWatches,     \* watches registered so far, <<sync, side>>
    chainPc,          \* number of watch registrations done (six in all)
    chainPending,     \* notified watches whose callback has not run yet
    chainOrigA,       \* history: a before the first sync_signal call
    chainLastVal,     \* history: value of the latest external write
    chainSets         \* history: external writes so far (saturating)

vars == <<left, right, immediate, direction, transform_ltr, transform_rtl,
          stop_watch_left, stop_watch_right, pc, pending, origLeft, origRight,
          lastSetSide, lastSetVal, nSets, writesToLeft, writesToRight,
          disposeCalls, sig, chainWatches, chainPc, chainPending,
          chainOrigA, chainLastVal, chainSets>>

pairVars == <<left, right, immediate, direction, transform_ltr, transform_rtl,
              stop_watch_left, stop_watch_right, pc, pending, origLeft,
              origRight, lastSetSide, lastSetVal, nSets, writesToLeft,
              writesToRight, disposeCalls>>

chainVars == <<sig, chainWatches, chainPc, chainPending, chainOrigA,
               chainLastVal, chainSets>>

opts == <<immediate, direction, transform_ltr, transform_rtl>>
hist == <<origLeft, origRight>>

(***************************************************************************)
(* Bounds of the model.                                                    *)
(***************************************************************************)
MaxVal == 2

MaxCount == 3

MaxCalls == 2

SatCap == 3

WrapMod == 4

\* Values the doc example of the custom transform writes (10 and 30).
DocValues == {10, 30}

\* Values the signals start with and that callers write.
Values == (0..MaxVal) \cup DocValues

\* Saturating history counters.
Sat(n) == IF n < MaxCount THEN n + 1 ELSE n

SatCalls(n) == IF n < MaxCalls THEN n + 1 ELSE n

(***************************************************************************)
(* Options.                                                                *)
(***************************************************************************)
SyncDirection == {"LeftToRight", "RightToLeft", "Both"}

\* Rust integer division truncates toward zero.
RustDiv(x, d) == IF x >= 0 THEN x \div d ELSE -((-x) \div d)

\* The transform closures: the default identity, the doc example's
\* `*left * 2` and `*right / 2`, and two caller-supplied closures that are
\* not inverses of anything: a saturating and a wrapping increment.
Apply(t, x) ==
    CASE t = "id"      -> x
      [] t = "double"  -> x * 2
      [] t = "half"    -> RustDiv(x, 2)
      [] t = "satinc"  -> IF x < SatCap THEN x + 1 ELSE x
      [] t = "wrapinc" -> (x + 1) % WrapMod

\* <<transform_ltr, transform_rtl>> pairs a caller may configure.
TransformPairs ==
    { <<"id", "id">>, <<"double", "half">>, <<"half", "double">>,
      <<"satinc", "satinc">>, <<"wrapinc", "wrapinc">> }

\* SyncSignalOptions::default()
IsDefault ==
    /\ immediate
    /\ direction = "Both"
    /\ transform_ltr = "id"
    /\ transform_rtl = "id"

(***************************************************************************)
(* Pieces of sync_signal_with_options.                                     *)
(***************************************************************************)
\* Variant: the left watch installed whatever the direction (as below).
C15_InstallsLeft_Always(d) == TRUE

\* Variant: the left watch installed whatever the direction.
C12_InstallsLeft_Always(d) == TRUE

\* matches!(direction, Both | LeftToRight)
InstallsLeft(d) == d \in {"Both", "LeftToRight"}

\* Variant: the right watch installed whatever the direction.
C4_InstallsRight_Always(d) == TRUE

\* matches!(direction, Both | RightToLeft)
InstallsRight(d) == d \in {"Both", "RightToLeft"}

\* Variant: the right watch registered first (as below).
C11_InstallOrder_RightFirst == <<"right", "left">>

\* Variant: the right watch registered first.
C1_InstallOrder_RightFirst == <<"right", "left">>

\* The left watch is registered (and fires, if immediate) before the right.
InstallOrder == <<"left", "right">>

\* Variant: the callback runs at registration whatever `immediate`.
C10_FiresOnRegister_Always(imm) == TRUE

\* `watch(.., immediate)`: whether the callback runs at registration.
FiresOnRegister(imm) == imm

\* Variant: unconditional write (as below).
C13_ShouldWrite_Always(dest, new_value) == TRUE

\* Variant: unconditional write.
C8_ShouldWrite_Always(dest, new_value) == TRUE

\* Variant: unconditional write (as above).
C9_ShouldWrite_Always(dest, new_value) == TRUE

\* The gate of both callbacks: `dest != &new_value`.
ShouldWrite(dest, new_value) == dest # new_value

\* Variant: the left watch forgets the transform (as below).
C17_NewRight_NoTransform(l) == l

\* Variant: the left watch forgets the transform.
C5_NewRight_NoTransform(l) == l

\* Left watch, `let new_value = (*transform_ltr)(new_value)`.
NewRight(l) == Apply(transform_ltr, l)

\* Left watch, `right.with_untracked(|right| right != &new_value)`.
LtrWrites(l, r) == ShouldWrite(r, NewRight(l))

\* Variant: the right watch applies transform_ltr.
C3_NewLeft_WrongTransform(r) == Apply(transform_ltr, r)

\* Right watch, `let new_value = (*transform_rtl)(new_value)`.
NewLeft(r) == Apply(transform_rtl, r)

\* Variant: the right watch's gate reads right instead of left (as below).
C18_RtlWrites_GateOnSource(l, r) == ShouldWrite(r, NewLeft(r))

\* Variant: the right watch's gate reads right instead of left.
C2_RtlWrites_GateOnSource(l, r) == ShouldWrite(r, NewLeft(r))

\* Right watch, `left.with_untracked(|left| left != &new_value)`.
RtlWrites(l, r) == ShouldWrite(l, NewLeft(r))

\* Variant: each watch also tracks its destination, so a write to either
\* signal notifies the watch of the other one too.
C14_Notify_TracksDestination(side, wl, wr) ==
    IF side = "left"
    THEN IF wl = "active" THEN <<"left">>
         ELSE IF wr = "active" THEN <<"right">> ELSE <<>>
    ELSE IF wr = "active" THEN <<"right">>
         ELSE IF wl = "active" THEN <<"left">> ELSE <<>>

\* Variant: the right watch tracks nothing, so writes to right notify no one.
C16_Notify_LeftOnly(side, wl, wr) ==
    IF side = "left" /\ wl = "active" THEN <<"left">> ELSE <<>>

\* Watchers a write to the signal `side` notifies, given the watch states:
\* the left watch tracks `left.get()`, the right watch `right.get()`.
Notify(side, wl, wr) ==
    IF side = "left"
    THEN IF wl = "active" THEN <<"left">> ELSE <<>>
    ELSE IF wr = "active" THEN <<"right">> ELSE <<>>

\* Variant: the stop function toggles the watch.
C7_StopWatch_Toggle(w) == IF w = "active" THEN "stopped" ELSE "active"

\* Calling a watch's stop function: the watch no longer runs.
StopWatch(w) == IF w = "active" THEN "stopped" ELSE w

\* `if let Some(stop_watch_left) = &stop_watch_left { stop_watch_left() }`
DisposeLeft(w) == IF w = "None" THEN w ELSE StopWatch(w)

\* Variant: the closure forgets the right watch.
C6_DisposeRight_Forgotten(w) == w

\* `if let Some(stop_watch_right) = &stop_watch_right { stop_watch_right() }`
DisposeRight(w) == IF w = "None" THEN w ELSE StopWatch(w)

\* The watch sync_signal_with_options is about to register.
Installing == IF pc = "first" THEN InstallOrder[1]
              ELSE IF pc = "second" THEN InstallOrder[2]
              ELSE "none"

NextPc == IF pc = "first" THEN "second" ELSE "returned"

\* sync_signal_with_options has returned and no callback is left to run.
Quiescent == pc = "returned" /\ pending = <<>>

(***************************************************************************)
(* Initial states: two signals with arbitrary values, any options, the     *)
(* call of sync_signal_with_options about to wire them.                    *)
(***************************************************************************)
\* The four-signal example is not part of a two-signal run.
ChainIdle ==
    /\ sig = [s \in {"a", "b", "c", "d"} |-> 0]
    /\ chainWatches = {}
    /\ chainPc = 0
    /\ chainPending = {}
    /\ chainOrigA = 0
    /\ chainLastVal = 0
    /\ chainSets = 0

Init ==
    /\ ChainIdle
    /\ left \in Values
    /\ right \in Values
    /\ immediate \in BOOLEAN
    /\ direction \in SyncDirection
    /\ \E p \in TransformPairs :
          /\ transform_ltr = p[1]
          /\ transform_rtl = p[2]
    /\ stop_watch_left = "None"
    /\ stop_watch_right = "None"
    /\ pc = "first"
    /\ pending = <<>>
    /\ origLeft = left
    /\ origRight = right
    /\ lastSetSide = "none"
    /\ lastSetVal = 0
    /\ nSets = 0
    /\ writesToLeft = 0
    /\ writesToRight = 0
    /\ disposeCalls = 0

(***************************************************************************)
(* Actions.                                                                *)
(***************************************************************************)
\* Lines 162-174: register the left watch; with immediate its callback runs
\* at once and may write right, which notifies right's watcher if present.
InstallLeft ==
    /\ Installing = "left"
    /\ UNCHANGED chainVars
    /\ pending = <<>>
    /\ pc' = NextPc
    /\ IF InstallsLeft(direction)
       THEN /\ stop_watch_left' = "active"
            /\ IF FiresOnRegister(immediate) /\ LtrWrites(left, right)
               THEN /\ right' = NewRight(left)
                    /\ writesToRight' = Sat(writesToRight)
                    /\ pending' = Notify("right", "active", stop_watch_right)
               ELSE UNCHANGED <<right, writesToRight, pending>>
       ELSE UNCHANGED <<stop_watch_left, right, writesToRight, pending>>
    /\ UNCHANGED <<left, stop_watch_right, writesToLeft, opts, hist,
                   lastSetSide, lastSetVal, nSets, disposeCalls>>

\* Lines 176-188: register the right watch, likewise.
InstallRight ==
    /\ Installing = "right"
    /\ UNCHANGED chainVars
    /\ pending = <<>>
    /\ pc' = NextPc
    /\ IF InstallsRight(direction)
       THEN /\ stop_watch_right' = "active"
            /\ IF FiresOnRegister(immediate) /\ RtlWrites(left, right)
               THEN /\ left' = NewLeft(right)
                    /\ writesToLeft' = Sat(writesToLeft)
                    /\ pending' = Notify("left", stop_watch_left, "active")
               ELSE UNCHANGED <<left, writesToLeft, pending>>
       ELSE UNCHANGED <<stop_watch_right, left, writesToLeft, pending>>
    /\ UNCHANGED <<right, stop_watch_left, writesToRight, opts, hist,
                   lastSetSide, lastSetVal, nSets, disposeCalls>>

\* The left watch runs after a write to left (lines 165-171).
FireLeft ==
    /\ UNCHANGED chainVars
    /\ pending # <<>>
    /\ Head(pending) = "left"
    /\ stop_watch_left = "active"
    /\ IF LtrWrites(left, right)
       THEN /\ right' = NewRight(left)
            /\ writesToRight' = Sat(writesToRight)
            /\ pending' = Tail(pending)
                            \o Notify("right", stop_watch_left, stop_watch_right)
       ELSE /\ pending' = Tail(pending)
            /\ UNCHANGED <<right, writesToRight>>
    /\ UNCHANGED <<left, stop_watch_left, stop_watch_right, pc, writesToLeft,
                   opts, hist, lastSetSide, lastSetVal, nSets, disposeCalls>>

\* The right watch runs after a write to right (lines 179-185).
FireRight ==
    /\ UNCHANGED chainVars
    /\ pending # <<>>
    /\ Head(pending) = "right"
    /\ stop_watch_right = "active"
    /\ IF RtlWrites(left, right)
       THEN /\ left' = NewLeft(right)
            /\ writesToLeft' = Sat(writesToLeft)
            /\ pending' = Tail(pending)
                            \o Notify("left", stop_watch_left, stop_watch_right)
       ELSE /\ pending' = Tail(pending)
            /\ UNCHANGED <<left, writesToLeft>>
    /\ UNCHANGED <<right, stop_watch_left, stop_watch_right, pc, writesToRight,
                   opts, hist, lastSetSide, lastSetVal, nSets, disposeCalls>>

\* The application writes left (e.g. `set_a.set(4)`): every write notifies.
SetLeft(v) ==
    /\ UNCHANGED chainVars
    /\ Quiescent
    /\ left' = v
    /\ pending' = Notify("left", stop_watch_left, stop_watch_right)
    /\ lastSetSide' = "left"
    /\ lastSetVal' = v
    /\ nSets' = SatCalls(nSets)
    /\ writesToLeft' = 0
    /\ writesToRight' = 0
    /\ UNCHANGED <<right, stop_watch_left, stop_watch_right, pc, opts, hist,
                   disposeCalls>>

\* The application writes right (e.g. `set_b.set(3)`).
SetRight(v) ==
    /\ UNCHANGED chainVars
    /\ Quiescent
    /\ right' = v
    /\ pending' = Notify("right", stop_watch_left, stop_watch_right)
    /\ lastSetSide' = "right"
    /\ lastSetVal' = v
    /\ nSets' = SatCalls(nSets)
    /\ writesToLeft' = 0
    /\ writesToRight' = 0
    /\ UNCHANGED <<left, stop_watch_left, stop_watch_right, pc, opts, hist,
                   disposeCalls>>

\* Variant: the closure runs the left watch's callback a last time.
C19_Dispose_FinalSync ==
    /\ UNCHANGED chainVars
    /\ Quiescent
    /\ stop_watch_left' = DisposeLeft(stop_watch_left)
    /\ stop_watch_right' = DisposeRight(stop_watch_right)
    /\ disposeCalls' = SatCalls(disposeCalls)
    /\ right' = IF stop_watch_left = "active" /\ LtrWrites(left, right)
                THEN NewRight(left) ELSE right
    /\ UNCHANGED <<left, pc, pending, opts, hist, lastSetSide,
                   lastSetVal, nSets, writesToLeft, writesToRight>>

\* The returned closure (lines 190-197).
Dispose ==
    /\ UNCHANGED chainVars
    /\ Quiescent
    /\ stop_watch_left' = DisposeLeft(stop_watch_left)
    /\ stop_watch_right' = DisposeRight(stop_watch_right)
    /\ disposeCalls' = SatCalls(disposeCalls)
    /\ UNCHANGED <<left, right, pc, pending, opts, hist, lastSetSide,
                   lastSetVal, nSets, writesToLeft, writesToRight>>

Next ==
    \/ InstallLeft
    \/ InstallRight
    \/ FireLeft
    \/ FireRight
    \/ \E v \in Values : SetLeft(v)
    \/ \E v \in Values : SetRight(v)
    \/ Dispose

Spec == Init /\ [][Next]_vars

(***************************************************************************)
(* The doc example of lines 55-62: four signals a, b, c, d and the calls   *)
(* sync_signal(a, c); sync_signal(d, b); sync_signal(c, d), each with the  *)
(* default options.  A signal may now have several watchers; the notified  *)
(* callbacks run in any order.                                             *)
(***************************************************************************)
Signals == {"a", "b", "c", "d"}

\* <<left, right>> of the three calls, in program order.
Syncs == << <<"a", "c">>, <<"d", "b">>, <<"c", "d">> >>

\* The six watch registrations in program order.
ChainOrder ==
    << <<1, InstallOrder[1]>>, <<1, InstallOrder[2]>>,
       <<2, InstallOrder[1]>>, <<2, InstallOrder[2]>>,
       <<3, InstallOrder[1]>>, <<3, InstallOrder[2]>> >>

ChainDone == Len(ChainOrder)

\* The signal a watch tracks and the one it writes.
ChainSrc(w) == IF w[2] = "left" THEN Syncs[w[1]][1] ELSE Syncs[w[1]][2]
ChainDst(w) == IF w[2] = "left" THEN Syncs[w[1]][2] ELSE Syncs[w[1]][1]

\* Whether the direction installs the watch.
ChainInstalls(w) ==
    IF w[2] = "left" THEN InstallsLeft(direction) ELSE InstallsRight(direction)

\* The callback of watch w on the signal values f: its gate and its value.
ChainWrites(w, f) ==
    IF w[2] = "left"
    THEN LtrWrites(f[Syncs[w[1]][1]], f[Syncs[w[1]][2]])
    ELSE RtlWrites(f[Syncs[w[1]][1]], f[Syncs[w[1]][2]])

ChainValue(w, f) ==
    IF w[2] = "left" THEN NewRight(f[ChainSrc(w)]) ELSE NewLeft(f[ChainSrc(w)])

ChainState(W, w) == IF w \in W THEN "active" ELSE "None"

\* The watches among W that a write to signal s notifies.
ChainNotified(s, W) ==
    UNION { LET sides ==
                  IF s = Syncs[i][1]
                  THEN Notify("left", ChainState(W, <<i, "left">>),
                              ChainState(W, <<i, "right">>))
                  ELSE IF s = Syncs[i][2]
                  THEN Notify("right", ChainState(W, <<i, "left">>),
                              ChainState(W, <<i, "right">>))
                  ELSE <<>>
            IN  { <<i, sides[k]>> : k \in 1..Len(sides) }
          : i \in 1..Len(Syncs) }

ChainQuiescent == chainPc = ChainDone /\ chainPending = {}

\* The options of the three calls: SyncSignalOptions::default().
PairIdle ==
    /\ immediate = TRUE
    /\ direction = "Both"
    /\ transform_ltr = "id"
    /\ transform_rtl = "id"
    /\ left = 0
    /\ right = 0
    /\ stop_watch_left = "None"
    /\ stop_watch_right = "None"
    /\ pc = "first"
    /\ pending = <<>>
    /\ origLeft = 0
    /\ origRight = 0
    /\ lastSetSide = "none"
    /\ lastSetVal = 0
    /\ nSets = 0
    /\ writesToLeft = 0
    /\ writesToRight = 0
    /\ disposeCalls = 0

ChainInit ==
    /\ PairIdle
    /\ sig \in [Signals -> Values]
    /\ chainWatches = {}
    /\ chainPc = 0
    /\ chainPending = {}
    /\ chainOrigA = sig["a"]
    /\ chainLastVal = 0
    /\ chainSets = 0

\* The next watch registration of the three calls, with its immediate run.
ChainInstall ==
    /\ chainPc < ChainDone
    /\ chainPending = {}
    /\ chainPc' = chainPc + 1
    /\ LET w == ChainOrder[chainPc + 1]
       IN  IF ChainInstalls(w)
           THEN /\ chainWatches' = chainWatches \cup {w}
                /\ IF FiresOnRegister(immediate) /\ ChainWrites(w, sig)
                   THEN /\ sig' = [sig EXCEPT ![ChainDst(w)] = ChainValue(w, sig)]
                        /\ chainPending' = ChainNotified(ChainDst(w), chainWatches')
                   ELSE UNCHANGED <<sig, chainPending>>
           ELSE UNCHANGED <<chainWatches, sig, chainPending>>
    /\ UNCHANGED <<chainOrigA, chainLastVal, chainSets, pairVars>>

\* One notified watch runs its callback.
ChainFire ==
    /\ \E w \in chainPending :
          IF ChainWrites(w, sig)
          THEN /\ sig' = [sig EXCEPT ![ChainDst(w)] = ChainValue(w, sig)]
               /\ chainPending' = (chainPending \ {w})
                                    \cup ChainNotified(ChainDst(w), chainWatches)
          ELSE /\ chainPending' = chainPending \ {w}
               /\ UNCHANGED sig
    /\ UNCHANGED <<chainWatches, chainPc, chainOrigA, chainLastVal, chainSets,
                   pairVars>>

\* The application writes one of the four signals.
ChainSet(s, v) ==
    /\ ChainQuiescent
    /\ sig' = [sig EXCEPT ![s] = v]
    /\ chainPending' = ChainNotified(s, chainWatches)
    /\ chainLastVal' = v
    /\ chainSets' = SatCalls(chainSets)
    /\ UNCHANGED <<chainWatches, chainPc, chainOrigA, pairVars>>

ChainNext ==
    \/ ChainInstall
    \/ ChainFire
    \/ \E s \in Signals, v \in Values : ChainSet(s, v)

\* Notified callbacks run before control returns to the caller, and the
\* three calls run to their end.
ChainSpec ==
    /\ ChainInit
    /\ [][ChainNext]_vars
    /\ WF_vars(ChainFire)
    /\ WF_vars(ChainInstall)

(***************************************************************************)
(* Properties.                                                             *)
(***************************************************************************)
Ltr(x) == Apply(transform_ltr, x)
Rtl(x) == Apply(transform_rtl, x)

\* C1: left wins on initial conflict.  With the default options and initial
\* values a # b, when sync_signal returns both signals hold a, the original
\* value of left.
C1_LeftWinsOnInitialConflict ==
    (IsDefault /\ origLeft # origRight /\ Quiescent /\ nSets = 0)
        => (left = origLeft /\ right = origLeft)

C1_Witness ==
    /\ IsDefault /\ origLeft # origRight /\ Quiescent /\ nSets = 0
    /\ left = origLeft /\ right = origLeft
    /\ writesToRight = 1 /\ writesToLeft = 0

\* C2: with the default options, whenever propagation has finished (and the
\* sync has not been disposed) both signals hold the same value, and after
\* an external write that value is the one written last.
C2_DefaultKeepsSignalsEqual ==
    (IsDefault /\ Quiescent /\ disposeCalls = 0)
        => /\ left = right
           /\ nSets > 0 => left = lastSetVal

C2_Witness ==
    /\ IsDefault /\ Quiescent /\ disposeCalls = 0
    /\ nSets = 2 /\ lastSetSide = "left"
    /\ lastSetVal # origLeft /\ lastSetVal # origRight
    /\ left = lastSetVal /\ right = lastSetVal
    /\ writesToRight = 1

\* C3: write propagation with direction Both.  The first callback run after
\* an external write of v to right leaves left = transform_rtl(v); after an
\* external write of w to left it leaves right = transform_ltr(w).  When the
\* destination already holds that value nothing is written and nothing
\* further is notified.
C3_FirstFire ==
    /\ lastSetSide = "right" =>
          /\ left' = Rtl(lastSetVal)
          /\ left = Rtl(lastSetVal) =>
                /\ pending' = <<>>
                /\ UNCHANGED <<left, right, writesToLeft, writesToRight>>
    /\ lastSetSide = "left" =>
          /\ right' = Ltr(lastSetVal)
          /\ right = Ltr(lastSetVal) =>
                /\ pending' = <<>>
                /\ UNCHANGED <<left, right, writesToLeft, writesToRight>>

C4_OnlySetLeftChangesLeft ==
    (direction = "LeftToRight" /\ left' # left) => \E v \in Values : SetLeft(v)

C4_RightFollowsLeft ==
    ( /\ direction = "LeftToRight" /\ Quiescent /\ disposeCalls = 0
      /\ lastSetSide = "left" )
        => (left = lastSetVal /\ right = Ltr(left))

C4_OneDirectionalIsolation ==
    /\ [][C4_OnlySetLeftChangesLeft]_vars
    /\ []C4_RightFollowsLeft

C4_Witness ==
    /\ direction = "LeftToRight" /\ Quiescent /\ disposeCalls = 0
    /\ nSets = 2 /\ lastSetSide = "right"
    /\ right = lastSetVal /\ right # Ltr(left)
    /\ left # origLeft

\* C5: transform correctness.  With direction Both and immediate, after
\* sync_signal_with_options returns left keeps its original value a and
\* right = transform_ltr(a), provided transform_rtl(transform_ltr(a)) = a;
\* after an external write of v to right left = transform_rtl(v) and right
\* stays v, provided transform_ltr(transform_rtl(v)) = v.  Doc example:
\* x*2 and x/2 from 10 and 2 give 10 and 20, then right = 30 gives 15, 30.
C5_TransformCorrectness ==
    (direction = "Both" /\ immediate /\ Quiescent /\ disposeCalls = 0) =>
        /\ (nSets = 0 /\ Rtl(Ltr(origLeft)) = origLeft)
              => (left = origLeft /\ right = Ltr(origLeft))
        /\ (nSets > 0 /\ lastSetSide = "right"
                /\ Ltr(Rtl(lastSetVal)) = lastSetVal)
              => (left = Rtl(lastSetVal) /\ right = lastSetVal)
        /\ (transform_ltr = "double" /\ transform_rtl = "half"
                /\ origLeft = 10 /\ origRight = 2 /\ nSets = 0)
              => (left = 10 /\ right = 20)
        /\ (transform_ltr = "double" /\ transform_rtl = "half"
                /\ nSets > 0 /\ lastSetSide = "right" /\ lastSetVal = 30)
              => (left = 15 /\ right = 30)

C5_Witness ==
    /\ direction = "Both" /\ immediate /\ Quiescent /\ disposeCalls = 0
    /\ transform_ltr = "double" /\ transform_rtl = "half"
    /\ origLeft = 10 /\ origRight = 2
    /\ nSets = 1 /\ lastSetSide = "right" /\ lastSetVal = 30
    /\ left = 15 /\ right = 30

\* C6: disposal stops propagation.  Once the returned closure has been
\* called, whatever the direction, left changes only by an external write to
\* left and right only by an external write to right.
C6_AfterDispose ==
    disposeCalls > 0 =>
        /\ left' # left => \E v \in Values : SetLeft(v)
        /\ right' # right => \E v \in Values : SetRight(v)

C6_DisposalStopsPropagation == [][C6_AfterDispose]_vars

C6_Witness ==
    /\ IsDefault /\ Quiescent /\ disposeCalls > 0
    /\ lastSetSide = "right" /\ right = lastSetVal
    /\ left # right

\* C7: the returned closure is idempotent.  A second or later call leaves
\* both signals, both watches and the pending notifications as the first
\* call left them, whatever the direction.
C7_LaterDisposeChangesNothing ==
    (disposeCalls > 0 /\ Dispose)
        => UNCHANGED <<left, right, stop_watch_left, stop_watch_right,
                       pending, pc>>

C7_DisposerIdempotent == [][C7_LaterDisposeChangesNothing]_vars

C7_Witness ==
    /\ disposeCalls = 2 /\ direction = "LeftToRight"
    /\ stop_watch_left = "stopped" /\ stop_watch_right = "None"

\* C8: no-op on equal values.  With immediate, if at the call every
\* installed direction already finds its transformed source equal to its
\* destination, sync_signal_with_options writes neither signal and notifies
\* no watcher.
C8_TransformedEqual ==
    /\ InstallsLeft(direction) => Ltr(origLeft) = origRight
    /\ InstallsRight(direction) => Rtl(origRight) = origLeft

C8_NoWriteOnEqualValues ==
    (immediate /\ nSets = 0 /\ C8_TransformedEqual)
        => /\ left = origLeft
           /\ right = origRight
           /\ writesToLeft = 0
           /\ writesToRight = 0
           /\ pending = <<>>

C8_Witness ==
    /\ immediate /\ nSets = 0 /\ C8_TransformedEqual /\ Quiescent
    /\ direction = "Both" /\ transform_ltr = "double"
    /\ origLeft # origRight
    /\ left = origLeft /\ right = origRight

\* C9 as stated: whenever the propagation of one external write has ended,
\* each direction has written at most once.
C9_Original ==
    (Quiescent /\ nSets > 0) => (writesToLeft <= 1 /\ writesToRight <= 1)

\* The transforms are stable under one round trip from the written value.
C9_RoundTripStable ==
    /\ lastSetSide = "left" => Ltr(Rtl(Ltr(lastSetVal))) = Ltr(lastSetVal)
    /\ lastSetSide = "right" => Rtl(Ltr(Rtl(lastSetVal))) = Rtl(lastSetVal)

\* C9 (amended): after an external write from which the transforms are
\* stable under one round trip, each direction writes at most once at any
\* point of the propagation, so the chain ends after one round trip.
C9_AtMostOneWritePerDirection ==
    (pc = "returned" /\ nSets > 0 /\ C9_RoundTripStable)
        => (writesToLeft <= 1 /\ writesToRight <= 1)

C9_Witness ==
    /\ Quiescent /\ nSets > 0 /\ C9_RoundTripStable
    /\ direction = "Both" /\ transform_ltr = "double"
    /\ lastSetSide = "right"
    /\ writesToLeft = 1 /\ writesToRight = 1

\* C10: with immediate = false sync_signal_with_options writes nothing,
\* whatever the direction and the initial values: until the first external
\* write both signals keep their initial values and no watcher is notified.
C10_NoWriteWithoutImmediate ==
    (~immediate /\ nSets = 0)
        => /\ left = origLeft
           /\ right = origRight
           /\ writesToLeft = 0
           /\ writesToRight = 0
           /\ pending = <<>>

C10_Witness ==
    /\ ~immediate /\ nSets = 0 /\ Quiescent
    /\ direction = "Both" /\ transform_ltr = "id"
    /\ stop_watch_left = "active" /\ stop_watch_right = "active"
    /\ origLeft # origRight
    /\ left = origLeft /\ right = origRight

\* C11: install ordering.  With direction Both, when the right watch is
\* about to be registered the left watch is already registered, its
\* immediate run is over (right = transform_ltr(left) if immediate, nothing
\* pending, left untouched) and the right watch does not exist yet; so the
\* right watch's immediate run reads the updated right.
C11_LeftWiringCompletesFirst ==
    /\ pc = "first" => (stop_watch_left = "None" /\ stop_watch_right = "None")
    /\ (pc = "second" /\ direction = "Both") =>
          /\ stop_watch_left = "active"
          /\ stop_watch_right = "None"
          /\ pending = <<>>
          /\ left = origLeft
          /\ writesToLeft = 0
          /\ immediate => right = Ltr(origLeft)
          /\ ~immediate => right = origRight
    /\ (pc = "returned" /\ direction = "Both" /\ immediate /\ nSets = 0
            /\ writesToLeft = 0) => left = Rtl(Ltr(origLeft))

C11_Witness ==
    /\ pc = "second" /\ direction = "Both" /\ immediate
    /\ stop_watch_left = "active" /\ stop_watch_right = "None"
    /\ right = Ltr(origLeft) /\ right # origRight
    /\ writesToRight = 1

\* C12: observer count.  Once sync_signal_with_options has returned, the
\* installed watches are exactly those its direction names: the left one
\* for LeftToRight and Both, the right one for RightToLeft and Both; so at
\* least one and at most two, in every later state.
C12_Installed ==
    (IF stop_watch_left = "None" THEN {} ELSE {"left"})
        \cup (IF stop_watch_right = "None" THEN {} ELSE {"right"})

C12_ObserverCount ==
    /\ pc = "returned" =>
          /\ C12_Installed =
                CASE direction = "LeftToRight" -> {"left"}
                  [] direction = "RightToLeft" -> {"right"}
                  [] direction = "Both"        -> {"left", "right"}
          /\ Cardinality(C12_Installed) \in 1..2
    /\ pc # "returned" => Cardinality(C12_Installed) <= 1

C12_Witness ==
    /\ pc = "returned" /\ direction = "RightToLeft"
    /\ C12_Installed = {"right"} /\ nSets = 2 /\ disposeCalls = 0

\* C13: equality-gated write.  Whenever a watch callback runs (at
\* registration or after a write to its source) the destination ends up
\* holding the transformed source; it is written only when it differed, so
\* every observer write changes the destination's value, and a run that
\* changes no value notifies no watcher.
C13_RestOfPending == IF pending = <<>> THEN <<>> ELSE Tail(pending)

C13_GatedStep ==
    /\ (pending # <<>> /\ Head(pending) = "left") => right' = Ltr(left)
    /\ (pending # <<>> /\ Head(pending) = "right") => left' = Rtl(right)
    /\ right' # right => right' = Ltr(left)
    /\ left' # left => left' = Rtl(right)
    /\ writesToRight' # writesToRight => right' # right
    /\ writesToLeft' # writesToLeft => left' # left
    /\ (left' = left /\ right' = right) => pending' = C13_RestOfPending

C13_EqualityGatedWrite == [][~Quiescent => C13_GatedStep]_vars

C13_Witness ==
    /\ Quiescent /\ direction = "Both" /\ disposeCalls = 0
    /\ transform_ltr = "satinc"
    /\ nSets = 1 /\ lastSetSide = "left"
    /\ writesToRight = 2 /\ writesToLeft = 2

\* C14: observer independence.  The left watch runs only after writes to
\* left: a run of it leaves left alone and notifies at most the right watch
\* (and symmetrically).  So with direction LeftToRight an external write of
\* v to right notifies nothing and right keeps v, even if v differs from
\* transform_ltr(left), until left is written.
C14_ObserverIndependence ==
    /\ (direction = "LeftToRight" /\ pc = "returned" /\ lastSetSide = "right")
          => /\ pending = <<>>
             /\ right = lastSetVal
             /\ writesToRight = 0
             /\ writesToLeft = 0
    /\ (direction = "RightToLeft" /\ pc = "returned" /\ lastSetSide = "left")
          => /\ pending = <<>>
             /\ left = lastSetVal
             /\ writesToRight = 0
             /\ writesToLeft = 0
    /\ Len(pending) <= 1
    /\ (pending = <<"left">> /\ pc = "returned")
          => (IF writesToLeft = 0 /\ writesToRight = 0
              THEN lastSetSide = "left" /\ left = lastSetVal
              ELSE left = Rtl(right))
    /\ (pending = <<"right">> /\ pc = "returned")
          => (IF writesToLeft = 0 /\ writesToRight = 0
              THEN lastSetSide = "right" /\ right = lastSetVal
              ELSE right = Ltr(left))

C14_Witness ==
    /\ direction = "LeftToRight" /\ immediate /\ transform_ltr = "id"
    /\ Quiescent /\ disposeCalls = 0
    /\ origLeft = 1 /\ origRight = 2
    /\ nSets = 1 /\ lastSetSide = "right"
    /\ left = 1 /\ right = lastSetVal /\ right # Ltr(left)

\* C15: RightToLeft mirrors LeftToRight.  With direction RightToLeft and
\* immediate, when sync_signal_with_options returns right keeps its
\* original value and left = transform_rtl(right); afterwards right changes
\* only by external writes to right, and when propagation of an external
\* write to right has finished left = transform_rtl(right).
C15_OnlySetRightChangesRight ==
    (direction = "RightToLeft" /\ right' # right)
        => \E v \in Values : SetRight(v)

C15_LeftFollowsRight ==
    (direction = "RightToLeft" /\ Quiescent /\ disposeCalls = 0) =>
        /\ (immediate /\ nSets = 0)
              => (right = origRight /\ left = Rtl(origRight))
        /\ lastSetSide = "right"
              => (right = lastSetVal /\ left = Rtl(right))

C15_RightToLeftMirror ==
    /\ [][C15_OnlySetRightChangesRight]_vars
    /\ []C15_LeftFollowsRight

C15_Witness ==
    /\ direction = "RightToLeft" /\ immediate /\ Quiescent
    /\ disposeCalls = 0 /\ transform_rtl = "half"
    /\ nSets = 2 /\ lastSetSide = "right"
    /\ right = lastSetVal /\ left = Rtl(right) /\ left # right
    /\ writesToLeft = 1

\* C16: non-convergence is possible.  With direction Both and both
\* transforms the wrapping increment (not mutual inverses), once an observer
\* has written during the propagation of an external write, every further
\* callback run writes again: the notifications never run out, no quiescent
\* state is reached and the number of induced writes has no bound.
C16_ChainNeverEnds ==
    ( /\ direction = "Both"
      /\ transform_ltr = "wrapinc"
      /\ transform_rtl = "wrapinc"
      /\ pc = "returned"
      /\ nSets > 0
      /\ writesToLeft + writesToRight > 0 )
        => /\ pending # <<>>
           /\ pending' # <<>>
           /\ (writesToLeft' # writesToLeft \/ writesToRight' # writesToRight
                 \/ writesToLeft = MaxCount \/ writesToRight = MaxCount)

C16_NonConvergencePossible == [][C16_ChainNeverEnds]_vars

C16_Witness ==
    /\ direction = "Both" /\ transform_ltr = "wrapinc"
    /\ transform_rtl = "wrapinc"
    /\ pc = "returned" /\ nSets = 1 /\ pending # <<>>
    /\ writesToLeft = MaxCount /\ writesToRight = MaxCount

\* C17: quiescence invariant for arbitrary transforms.  Whenever the
\* propagation of an external write to a signal S has finished and the
\* watch from S to D is active, D = transform(S): after a write to left
\* right = transform_ltr(left), after a write to right
\* left = transform_rtl(right), inverse transforms or not.
C17_QuiescenceInvariant ==
    (Quiescent /\ nSets > 0) =>
        /\ (lastSetSide = "left" /\ stop_watch_left = "active")
              => right = Ltr(left)
        /\ (lastSetSide = "right" /\ stop_watch_right = "active")
              => left = Rtl(right)

C17_Witness ==
    /\ Quiescent /\ nSets > 0 /\ direction = "Both"
    /\ transform_ltr = "satinc"
    /\ lastSetSide = "right" /\ stop_watch_right = "active"
    /\ left = Rtl(right) /\ right # lastSetVal
    /\ Ltr(Rtl(lastSetVal)) # lastSetVal

\* C19: disposer frame.  A call of the returned closure changes neither
\* left nor right, runs and notifies no watcher, and after it no watcher is
\* ever notified again: the values at disposal, synchronized or not, stay
\* until an external write.
C19_DisposeStep ==
    /\ disposeCalls' # disposeCalls =>
          /\ left' = left
          /\ right' = right
          /\ pending = <<>>
          /\ pending' = <<>>
          /\ UNCHANGED <<writesToLeft, writesToRight, nSets, lastSetVal>>
    /\ disposeCalls > 0 => pending' = <<>>

C19_DisposerFrame == [][C19_DisposeStep]_vars

C19_Witness ==
    /\ disposeCalls = 1 /\ Quiescent /\ nSets = 0
    /\ direction = "Both" /\ ~immediate /\ transform_ltr = "id"
    /\ stop_watch_left = "stopped" /\ stop_watch_right = "stopped"
    /\ origLeft # origRight
    /\ left = origLeft /\ right = origRight

\* C18: composition of pairwise syncs.  After sync_signal(a, c),
\* sync_signal(d, b), sync_signal(c, d) with the default options all four
\* signals hold a's original value; after any later external write to one
\* of them propagation terminates, and when it has all four hold the
\* written value.
C18_AllEqual ==
    ChainQuiescent =>
        /\ \A s \in Signals : sig[s] = sig["a"]
        /\ chainSets = 0 => sig["a"] = chainOrigA
        /\ chainSets > 0 => sig["a"] = chainLastVal

C18_Composition ==
    /\ []C18_AllEqual
    /\ (chainPending # {}) ~> (chainPending = {})
    /\ <>ChainQuiescent

C18_Witness ==
    /\ ChainQuiescent /\ chainSets = 2
    /\ chainLastVal # chainOrigA
    /\ \A s \in Signals : sig[s] = chainLastVal

====
